---------------------------- MODULE Spec2Model ----------------------------
(***************************************************************************)
(* A model of the NSCLC staging backend: the /analyze request handler of   *)
(* backend/main.py and the image pipeline of                               *)
(* backend/services/image_processor.py.                                    *)
(*                                                                         *)
(* The specifications of the module:                                       *)
(*   Spec        the /analyze handler for two concurrent requests, one     *)
(*               step per statement group, read_and_normalize unfolded     *)
(*               into its stages, file contents abstracted to what the     *)
(*               decoders make of them;                                    *)
(*   SpecSolo    the same handler for one request, its upload named after  *)
(*               any supported format;                                     *)
(*   SpecSniff   _is_dicom_file applied to arbitrary paths and contents;   *)
(*   SpecDecode  _read_dicom, _apply_window_level and _normalize_ct_image  *)
(*               applied to concrete pixel data (one-row images);          *)
(*   SpecDecodeUnwindowed  SpecDecode on datasets without window           *)
(*               attributes;                                               *)
(*   SpecRewindow  _read_dicom, then _apply_window_level on its own output;*)
(*   SpecEncode  _pil_to_base64 applied to serialized bytes;               *)
(*   SpecDirect  read_and_normalize called on arbitrary paths and          *)
(*               contents;                                                 *)
(*   SpecAnalyze  analyze_ct_scan of backend/services/vision_analyzer.py   *)
(*               on the responses of the remote model.                     *)
(* Strings that the code takes apart (paths, content types) are sequences  *)
(* of characters or tokens.  Floating point arithmetic is modelled by      *)
(* exact rational arithmetic followed by the truncation of astype(uint8).  *)
(***************************************************************************)
EXTENDS Integers, Sequences, FiniteSets, TLC

VARIABLES
    \* ---- /analyze requests (backend/main.py) ----
    pc,            \* [Reqs -> position of the handler]
    resp,          \* [Reqs -> HTTP status answered, 0 while none]
    size,          \* [Reqs -> len(content), 0 before the upload is read]
    content,       \* [Reqs -> the uploaded bytes, abstracted to what they decode to]
    created,       \* [Reqs -> path of the file NamedTemporaryFile created, <<>> if none]
    tmp_file_path, \* [Reqs -> the handler's local tmp_file_path, <<>> if unassigned]
    fs,            \* the temporary directory: path -> bytes of the file
    stages,        \* [Reqs -> stages of read_and_normalize entered, in order]
    is_dicom,      \* [Reqs -> result of _is_dicom_file]
    img,           \* [Reqs -> shape of the array / size of the PIL image in flight]
    payload,       \* [Reqs -> what read_and_normalize returned]
    exc,           \* [Reqs -> the exception in flight or raised]
    analyzerCalls, \* [Reqs -> number of analyze_ct_scan invocations]
    client,        \* vision_analyzer.client is set
    content_type,  \* [Reqs -> UploadFile.content_type, until the upload is read]
    processor,     \* the fields of the module's ImageProcessor instance
    \* ---- _is_dicom_file on its own ----
    sniff,
    \* ---- pixel level decode ----
    dec,
    \* ---- _pil_to_base64 on serialized bytes ----
    enc,
    \* ---- analyze_ct_scan on the responses of the remote model ----
    ana

reqVars == <<pc, resp, size, content, created, tmp_file_path, fs, stages,
             is_dicom, img, payload, exc, analyzerCalls, client, content_type,
             processor>>
vars == <<pc, resp, size, content, created, tmp_file_path, fs, stages,
          is_dicom, img, payload, exc, analyzerCalls, client, content_type,
          processor, sniff, dec, enc, ana>>

-----------------------------------------------------------------------------
(* Strings *)

\* str.lower() on the alphabet of the model.
Lower(c) ==
    CASE c = "D" -> "d"
      [] c = "C" -> "c"
      [] c = "M" -> "m"
      [] OTHER -> c

LowerStr(s) == [i \in 1..Len(s) |-> Lower(s[i])]

\* str.rfind(ch): the last index of ch in s, 0 when absent (1-based).
RFind(s, ch) ==
    LET hits == {i \in 1..Len(s) : s[i] = ch}
    IN  IF hits = {} THEN 0 ELSE CHOOSE i \in hits : \A j \in hits : j <= i

\* os.path.splitext(p)[1]: the extension starts at the last dot that follows
\* the last separator, unless only dots precede it in the file name.
SplitextExt(p) ==
    LET sepIndex == RFind(p, "/")
        dotIndex == RFind(p, ".")
    IN  IF dotIndex > sepIndex
           /\ \E k \in (sepIndex + 1)..(dotIndex - 1) : p[k] # "."
        THEN SubSeq(p, dotIndex, Len(p))
        ELSE <<>>

\* str.startswith on token sequences.
StartsWith(s, t) == Len(t) <= Len(s) /\ SubSeq(s, 1, Len(t)) = t

DotDcm == <<".", "d", "c", "m">>
DotTmp == <<".", "t", "m", "p">>


-----------------------------------------------------------------------------
(* Uploads and files *)

Reqs == {1, 2}

\* The uploaded bytes, by what the two decoders make of them:
\*   dicom          a DICOM object whose pixel data decodes to an array of `shape`
\*   dicom_nopixel  a DICOM header without usable pixel data
\*   raster         a PNG/JPEG that Pillow opens, `shape` after conversion to L
\*   corrupt        bytes neither decoder parses
\*   empty          no bytes (a file that was created and never written)
\* Array shapes are (rows, columns) or (rows, columns, channels).
DicomShapes == {<<256, 256>>, <<512, 512>>, <<512, 512, 3>>, <<512, 300, 1>>}
RasterShapes == {<<1024, 768>>, <<256, 512>>, <<512, 512>>}

Contents ==
    [kind : {"dicom"}, shape : DicomShapes]
    \cup [kind : {"raster"}, shape : RasterShapes]
    \cup [kind : {"dicom_nopixel", "corrupt"}, shape : {<<>>}]

NoContent == [kind |-> "none", shape |-> <<>>]

\* A file of the temporary directory: its bytes and the request that created
\* it (0: not a request), which tells a file from a later one of the same name.
File(bytes, r) == [kind |-> bytes.kind, shape |-> bytes.shape, by |-> r]
EmptyBytes == [kind |-> "empty", shape |-> <<>>]

\* UploadFile.content_type: None, or a string cut into tokens.
NoneType == <<"None">>
\* The content type of an upload the handler is not looking at.
TypeUnset == <<"unset">>
ContentTypes ==
    { NoneType, <<>>, <<"image/", "png">>, <<"application/dicom">>,
      <<"application/octet-stream">>, <<"text/", "plain">> }
AllowedTypePrefixes ==
    { <<"image/">>, <<"application/dicom">>, <<"application/octet-stream">> }

MaxUploadBytes == 50 * 1024 * 1024
\* len(content), at the two sides of the size gate.
Sizes == {MaxUploadBytes, MaxUploadBytes + 1}

\* UploadFile.filename: None, or a string.
NoneName == <<"None">>
FileNames ==
    { NoneName, <<>>,
      <<"a", ".", "d", "c", "m">>,
      <<"a", ".", "D", "C", "M">>,
      <<"a", ".", "p">>,
      <<"a">>,
      <<".", "d", "c", "m">> }

\* Upload names with the extensions of the raster formats
\* (supported_formats, line 33).
ExtNames ==
    { <<"a", ".", "p", "n", "g">>,
      <<"a", ".", "j", "p", "g">>,
      <<"a", ".", "j", "p", "e", "g">> }

\* tempfile's directory and the random part of a temporary name.  The names
\* are interchangeable, so the model takes the first one that gives a free path.
TmpIds == <<"1", "2", "3">>
TmpBase(id) == <<"/", "t", "/", id>>

NoPath == <<>>
\* An exception in flight: the stage that raised it, its class, the stage its
\* message names ("none": it names no stage) and the path its message carries.
NoExc == [stage |-> "none", kind |-> "none", context |-> "none", file |-> <<>>]
\* The classes whose message carries the path: FileNotFoundError and
\* PermissionError ("[Errno ..] ...: '<path>'"), Pillow's UnidentifiedImageError
\* ("cannot identify image file '<path>'").
PathInMessage == {"FileNotFoundError", "PermissionError", "UnidentifiedImageError"}
NoPayload == [size |-> <<>>, resized |-> FALSE]
NoImage == <<>>

\* image_processor.py lines 32-34: the fields __init__ sets.
NewImageProcessor ==
    [supported_formats |-> <<".dcm", ".png", ".jpg", ".jpeg">>,
     target_size |-> <<512, 512>>]

\* self.target_size
target_size == processor.target_size

-----------------------------------------------------------------------------
(* File system *)

Exists(f, path) == path \in DOMAIN f

WriteFile(f, path, bytes) ==
    [p \in DOMAIN f \cup {path} |-> IF p = path THEN bytes ELSE f[p]]

Unlink(f, path) == [p \in DOMAIN f \ {path} |-> f[p]]

-----------------------------------------------------------------------------
(* image_processor.py, on abstract contents *)

\* pydicom.dcmread(path, stop_before_pixels=True): "ok", or the exception.
HeaderParse(f, path) ==
    IF ~Exists(f, path) THEN "FileNotFoundError"
    ELSE IF f[path].kind = "unreadable" THEN "PermissionError"
    ELSE IF f[path].kind \in {"dicom", "dicom_nopixel"} THEN "ok"
    ELSE "InvalidDicomError"

\* An except clause that names InvalidDicomError alone.
SniffCaughtInvalidOnly == {"InvalidDicomError"}

\* The exceptions the except clause of _is_dicom_file catches:
\* (InvalidDicomError, Exception), that is every Exception.
SniffCaught == {"InvalidDicomError", "FileNotFoundError", "PermissionError"}

\* A classification that compares the extension as it is written.
IsDicomFileCaseSensitive(f, path) ==
    IF SplitextExt(path) = DotDcm
    THEN [raised |-> "none", result |-> TRUE, read |-> FALSE]
    ELSE LET r == HeaderParse(f, path)
         IN  IF r = "ok"
             THEN [raised |-> "none", result |-> TRUE, read |-> TRUE]
             ELSE IF r \in SniffCaught
             THEN [raised |-> "none", result |-> FALSE, read |-> TRUE]
             ELSE [raised |-> r, result |-> FALSE, read |-> TRUE]

\* _is_dicom_file: [raised, result, read], read = the content was parsed.
IsDicomFile(f, path) ==
    IF SplitextExt(LowerStr(path)) = DotDcm
    THEN [raised |-> "none", result |-> TRUE, read |-> FALSE]
    ELSE LET r == HeaderParse(f, path)
         IN  IF r = "ok"
             THEN [raised |-> "none", result |-> TRUE, read |-> TRUE]
             ELSE IF r \in SniffCaught
             THEN [raised |-> "none", result |-> FALSE, read |-> TRUE]
             ELSE [raised |-> r, result |-> FALSE, read |-> TRUE]

\* _read_dicom on a file: the shape of pixel_array, or the exception.
ReadDicomFile(f, path) ==
    IF ~Exists(f, path) THEN [ok |-> FALSE, shape |-> <<>>, kind |-> "FileNotFoundError"]
    ELSE IF f[path].kind = "dicom" THEN [ok |-> TRUE, shape |-> f[path].shape, kind |-> "none"]
    ELSE IF f[path].kind = "dicom_nopixel"
    THEN [ok |-> FALSE, shape |-> <<>>, kind |-> "AttributeError"]
    ELSE [ok |-> FALSE, shape |-> <<>>, kind |-> "InvalidDicomError"]

\* A raster decoder that gives a blank image for bytes it cannot identify.
ReadStandardImageBlank(f, path) ==
    IF ~Exists(f, path) THEN [ok |-> FALSE, shape |-> <<>>, kind |-> "FileNotFoundError"]
    ELSE IF f[path].kind = "raster" THEN [ok |-> TRUE, shape |-> f[path].shape, kind |-> "none"]
    ELSE [ok |-> TRUE, shape |-> <<512, 512>>, kind |-> "none"]

\* _read_standard_image on a file.
ReadStandardImageFile(f, path) ==
    IF ~Exists(f, path) THEN [ok |-> FALSE, shape |-> <<>>, kind |-> "FileNotFoundError"]
    ELSE IF f[path].kind = "raster" THEN [ok |-> TRUE, shape |-> f[path].shape, kind |-> "none"]
    ELSE [ok |-> FALSE, shape |-> <<>>, kind |-> "UnidentifiedImageError"]

IsNotOne(d) == d # 1

\* The shape _normalize_ct_image works on (lines 149-150); equalizeHist and
\* GaussianBlur keep it.
NormalizedShape(shape) ==
    IF Len(shape) > 2
    THEN IF shape[3] > 1 THEN <<shape[1], shape[2]>> ELSE SelectSeq(shape, IsNotOne)
    ELSE shape

\* Image.fromarray(a).size for a 2-D array: (columns, rows).
PilSize(shape) == <<shape[2], shape[1]>>

\* A comparison of the widths alone.
ResizeNeededWidthOnly(sz) == sz[1] # target_size[1]

\* image_processor.py line 52.
ResizeNeeded(sz) == sz # target_size


-----------------------------------------------------------------------------
(* backend/main.py: analyze_image *)

\* Lines 146-148: the content-type gate.
TypeAccepted(ct) ==
    /\ ct # NoneType
    /\ ct # <<>>
    /\ \E t \in AllowedTypePrefixes : StartsWith(ct, t)

\* A size gate that turns away an upload of exactly the limit.
SizeAcceptedBelow(n) == n < MaxUploadBytes

\* Line 159: the size gate.
SizeAccepted(n) == ~(n > MaxUploadBytes)

\* Line 170: the suffix of the temporary file.
FileExtension(filename) ==
    IF filename # NoneName /\ filename # <<>> THEN SplitextExt(filename) ELSE DotTmp

\* A decoder that is tried again after it raised.
AfterRetry(stage, ok) ==
    IF ~ok THEN (IF stage = "read_dicom" THEN "decode" ELSE "finally")
    ELSE CASE stage = "classify" -> "decode"
           [] stage = "read_dicom" -> "normalize"
           [] stage = "read_standard" -> "normalize"
           [] stage = "normalize" -> "encode"
           [] stage = "encode" -> "analyze"

\* A handler that goes on to the analyzer when the encoding raised.
AfterSwallow(stage, ok) ==
    IF ~ok THEN (IF stage = "encode" THEN "analyze" ELSE "finally")
    ELSE CASE stage = "classify" -> "decode"
           [] stage = "read_dicom" -> "normalize"
           [] stage = "read_standard" -> "normalize"
           [] stage = "normalize" -> "encode"
           [] stage = "encode" -> "analyze"

\* image_processor.py lines 38-63: the stages run in sequence inside one try
\* block; a stage that raises ends the invocation (the handler logs and
\* re-raises), and main.py's finally block runs next.
After(stage, ok) ==
    IF ~ok THEN "finally"
    ELSE CASE stage = "classify" -> "decode"
           [] stage = "read_dicom" -> "normalize"
           [] stage = "read_standard" -> "normalize"
           [] stage = "normalize" -> "encode"
           [] stage = "encode" -> "analyze"

\* image_processor.py lines 61-63, 108-110, 129-131 and main.py lines 199-204:
\* each handler logs and re-raises the exception it caught, as the library
\* raised it.
Raised(stage, kind, path) ==
    [stage |-> stage, kind |-> kind, context |-> "none",
     file |-> IF kind \in PathInMessage THEN path ELSE NoPath]

Raise(r, stage, kind) ==
    exc' = [exc EXCEPT ![r] = Raised(stage, kind, tmp_file_path[r])]

\* A temporary name that does not depend on the files that exist.
TmpNameFixed(f, suffix) == TmpBase(TmpIds[1]) \o suffix

\* tempfile.NamedTemporaryFile: a path in the temporary directory that no
\* existing file has, ending in the suffix.
TmpName(f, suffix) ==
    LET free == {i \in 1..Len(TmpIds) : ~Exists(f, TmpBase(TmpIds[i]) \o suffix)}
        i == CHOOSE k \in free : \A j \in free : k <= j
    IN  TmpBase(TmpIds[i]) \o suffix

\* Lines 146-152.
ValidateType(r) ==
    /\ pc[r] = "start"
    /\ \E ct \in ContentTypes :
         /\ content_type' = [content_type EXCEPT ![r] = ct]
         /\ IF TypeAccepted(ct)
            THEN /\ pc' = [pc EXCEPT ![r] = "read"]
                 /\ UNCHANGED resp
            ELSE /\ pc' = [pc EXCEPT ![r] = "done"]
                 /\ resp' = [resp EXCEPT ![r] = 400]
    /\ UNCHANGED <<size, content, created, tmp_file_path, fs, stages, is_dicom,
                   img, payload, exc, analyzerCalls, client,
                   processor, sniff, dec, enc, ana>>

\* Lines 155-166.  No statement after the gate of line 147 reads
\* file.content_type, and the model forgets it here.
ReadUpload(r) ==
    /\ pc[r] = "read"
    /\ content_type' = [content_type EXCEPT ![r] = TypeUnset]
    /\ \E c \in Contents, n \in Sizes :
         /\ size' = [size EXCEPT ![r] = n]
         /\ IF SizeAccepted(n)
            THEN /\ content' = [content EXCEPT ![r] = c]
                 /\ pc' = [pc EXCEPT ![r] = "mktemp"]
                 /\ UNCHANGED resp
            ELSE /\ pc' = [pc EXCEPT ![r] = "done"]
                 /\ resp' = [resp EXCEPT ![r] = 400]
                 /\ UNCHANGED content
    /\ UNCHANGED <<created, tmp_file_path, fs, stages, is_dicom, img, payload,
                   exc, analyzerCalls, client, processor, sniff, dec, enc, ana>>

\* Lines 170-171: NamedTemporaryFile(delete=False, suffix=...) creates an empty
\* file under a name no existing file has.
CreateTmpNamed(r, names) ==
    /\ pc[r] = "mktemp"
    /\ \E filename \in names :
         LET path == TmpName(fs, FileExtension(filename))
         IN  /\ fs' = WriteFile(fs, path, File(EmptyBytes, r))
             /\ created' = [created EXCEPT ![r] = path]
    /\ pc' = [pc EXCEPT ![r] = "write"]
    /\ UNCHANGED <<resp, size, content, tmp_file_path, stages, is_dicom, img,
                   payload, exc, analyzerCalls, client, content_type,
                   processor, sniff, dec, enc, ana>>

CreateTmp(r) == CreateTmpNamed(r, FileNames)

\* The same step for an upload named after an image format.
CreateTmpExt(r) == CreateTmpNamed(r, ExtNames)

\* Lines 172-173 and the exit of the with block.
WriteTmpOk(r) ==
    /\ pc[r] = "write"
    /\ fs' = WriteFile(fs, created[r], File(content[r], r))
    /\ tmp_file_path' = [tmp_file_path EXCEPT ![r] = created[r]]
    /\ pc' = [pc EXCEPT ![r] = "pipeline"]
    /\ UNCHANGED <<resp, size, content, created, stages, is_dicom, img,
                   payload, exc, analyzerCalls, client, content_type,
                   processor, sniff, dec, enc, ana>>

\* Lines 172, 199-204: tmp_file.write raises (the disk is full); the with block
\* closes the file and the outer handler answers 500.
WriteTmpFails(r) ==
    /\ pc[r] = "write"
    /\ Raise(r, "write", "OSError")
    /\ resp' = [resp EXCEPT ![r] = 500]
    /\ pc' = [pc EXCEPT ![r] = "done"]
    /\ UNCHANGED <<size, content, created, tmp_file_path, fs, stages, is_dicom,
                   img, payload, analyzerCalls, client, content_type,
                   processor, sniff, dec, enc, ana>>

\* image_processor.py line 40.
Classify(r) ==
    /\ pc[r] = "pipeline"
    /\ stages' = [stages EXCEPT ![r] = Append(@, "classify")]
    /\ LET c == IsDicomFile(fs, tmp_file_path[r])
       IN  IF c.raised = "none"
           THEN /\ is_dicom' = [is_dicom EXCEPT ![r] = c.result]
                /\ pc' = [pc EXCEPT ![r] = After("classify", TRUE)]
                /\ UNCHANGED exc
           ELSE /\ Raise(r, "classify", c.raised)
                /\ pc' = [pc EXCEPT ![r] = After("classify", FALSE)]
                /\ UNCHANGED is_dicom
    /\ UNCHANGED <<resp, size, content, created, tmp_file_path, fs, img,
                   payload, analyzerCalls, client, content_type,
                   processor, sniff, dec, enc, ana>>

\* image_processor.py lines 42-43.
DecodeDicom(r) ==
    /\ pc[r] = "decode"
    /\ is_dicom[r]
    /\ stages' = [stages EXCEPT ![r] = Append(@, "read_dicom")]
    /\ LET d == ReadDicomFile(fs, tmp_file_path[r])
       IN  IF d.ok
           THEN /\ img' = [img EXCEPT ![r] = d.shape]
                /\ pc' = [pc EXCEPT ![r] = After("read_dicom", TRUE)]
                /\ UNCHANGED exc
           ELSE /\ Raise(r, "read_dicom", d.kind)
                /\ pc' = [pc EXCEPT ![r] = After("read_dicom", FALSE)]
                /\ UNCHANGED img
    /\ UNCHANGED <<resp, size, content, created, tmp_file_path, fs, is_dicom,
                   payload, analyzerCalls, client, content_type,
                   processor, sniff, dec, enc, ana>>

\* image_processor.py lines 44-45.
DecodeRaster(r) ==
    /\ pc[r] = "decode"
    /\ ~is_dicom[r]
    /\ stages' = [stages EXCEPT ![r] = Append(@, "read_standard")]
    /\ LET d == ReadStandardImageFile(fs, tmp_file_path[r])
       IN  IF d.ok
           THEN /\ img' = [img EXCEPT ![r] = d.shape]
                /\ pc' = [pc EXCEPT ![r] = After("read_standard", TRUE)]
                /\ UNCHANGED exc
           ELSE /\ Raise(r, "read_standard", d.kind)
                /\ pc' = [pc EXCEPT ![r] = After("read_standard", FALSE)]
                /\ UNCHANGED img
    /\ UNCHANGED <<resp, size, content, created, tmp_file_path, fs, is_dicom,
                   payload, analyzerCalls, client, content_type,
                   processor, sniff, dec, enc, ana>>

\* image_processor.py lines 48-49; the stage fails only for want of memory.
Normalize(r) ==
    /\ pc[r] = "normalize"
    /\ stages' = [stages EXCEPT ![r] = Append(@, "normalize")]
    /\ \/ /\ img' = [img EXCEPT ![r] = PilSize(NormalizedShape(@))]
          /\ pc' = [pc EXCEPT ![r] = After("normalize", TRUE)]
          /\ UNCHANGED exc
       \/ /\ Raise(r, "normalize", "MemoryError")
          /\ pc' = [pc EXCEPT ![r] = After("normalize", FALSE)]
          /\ UNCHANGED img
    /\ UNCHANGED <<resp, size, content, created, tmp_file_path, fs, is_dicom,
                   payload, analyzerCalls, client, content_type,
                   processor, sniff, dec, enc, ana>>

\* image_processor.py lines 52-59.
Encode(r) ==
    /\ pc[r] = "encode"
    /\ stages' = [stages EXCEPT ![r] = Append(@, "encode")]
    /\ \/ /\ payload' = [payload EXCEPT ![r] =
                 [size |-> IF ResizeNeeded(img[r]) THEN target_size ELSE img[r],
                  resized |-> ResizeNeeded(img[r])]]
          /\ pc' = [pc EXCEPT ![r] = After("encode", TRUE)]
          /\ UNCHANGED exc
       \/ /\ Raise(r, "encode", "MemoryError")
          /\ pc' = [pc EXCEPT ![r] = After("encode", FALSE)]
          /\ UNCHANGED payload
    /\ UNCHANGED <<resp, size, content, created, tmp_file_path, fs, is_dicom,
                   img, analyzerCalls, client, content_type,
                   processor, sniff, dec, enc, ana>>

\* main.py line 184; vision_analyzer.py lines 45-46, 170-179.
Analyze(r) ==
    /\ pc[r] = "analyze"
    /\ analyzerCalls' = [analyzerCalls EXCEPT ![r] = @ + 1]
    /\ IF client
       THEN UNCHANGED exc
       ELSE Raise(r, "analyze", "RuntimeError")
    /\ pc' = [pc EXCEPT ![r] = "finally"]
    /\ UNCHANGED <<resp, size, content, created, tmp_file_path, fs, stages,
                   is_dicom, img, payload, client, content_type,
                   processor, sniff, dec, enc, ana>>

\* main.py lines 188-204: the finally block, then the response.
Finally(r) ==
    /\ pc[r] = "finally"
    /\ fs' = IF Exists(fs, tmp_file_path[r]) THEN Unlink(fs, tmp_file_path[r]) ELSE fs
    /\ resp' = [resp EXCEPT ![r] = IF exc[r] = NoExc THEN 200 ELSE 500]
    /\ pc' = [pc EXCEPT ![r] = "done"]
    /\ UNCHANGED <<size, content, created, tmp_file_path, stages, is_dicom,
                   img, payload, exc, analyzerCalls, client, content_type,
                   processor, sniff, dec, enc, ana>>

\* main.py line 44, vision_analyzer.py lines 22-29.
Initialize ==
    /\ ~client
    /\ client' = TRUE
    /\ UNCHANGED <<pc, resp, size, content, created, tmp_file_path, fs, stages,
                   is_dicom, img, payload, exc, analyzerCalls, content_type,
                   processor, sniff, dec, enc, ana>>

NoSniff == [path |-> <<>>, file |-> NoContent, state |-> "off", raised |-> "none",
            result |-> FALSE, read |-> FALSE]
NoDec == [state |-> "off"]
NoEnc == [state |-> "off"]
NoAna == [state |-> "off"]

InitReq ==
    /\ pc = [r \in Reqs |-> "start"]
    /\ resp = [r \in Reqs |-> 0]
    /\ size = [r \in Reqs |-> 0]
    /\ content = [r \in Reqs |-> NoContent]
    /\ created = [r \in Reqs |-> NoPath]
    /\ tmp_file_path = [r \in Reqs |-> NoPath]
    /\ fs = <<>>
    /\ stages = [r \in Reqs |-> <<>>]
    /\ is_dicom = [r \in Reqs |-> FALSE]
    /\ img = [r \in Reqs |-> NoImage]
    /\ payload = [r \in Reqs |-> NoPayload]
    /\ exc = [r \in Reqs |-> NoExc]
    /\ analyzerCalls = [r \in Reqs |-> 0]
    /\ client = FALSE
    /\ content_type = [r \in Reqs |-> TypeUnset]
    /\ processor = NewImageProcessor

Init == InitReq /\ sniff = NoSniff /\ dec = NoDec /\ enc = NoEnc /\ ana = NoAna

\* The steps of the handler other than the creation of the temporary file.
HandlerStep(r) ==
    \/ ValidateType(r)
    \/ ReadUpload(r)
    \/ WriteTmpOk(r)
    \/ WriteTmpFails(r)
    \/ Classify(r)
    \/ DecodeDicom(r)
    \/ DecodeRaster(r)
    \/ Normalize(r)
    \/ Encode(r)
    \/ Analyze(r)
    \/ Finally(r)

Next ==
    \/ Initialize
    \/ \E r \in Reqs : CreateTmp(r) \/ HandlerStep(r)

Spec == Init /\ [][Next]_vars

\* One request on its own (request 1; no second request arrives), its upload
\* named after any of the supported formats.
NextSolo == Initialize \/ CreateTmp(1) \/ CreateTmpExt(1) \/ HandlerStep(1)

SpecSolo == Init /\ [][NextSolo]_vars


-----------------------------------------------------------------------------
(* Properties of the /analyze handler *)

\* C1: for every request that created a temporary file, that file no longer
\* exists once the request has finished, whatever the exit path.
C1_TempFileDeleted ==
    \A r \in Reqs :
        (pc[r] = "done" /\ created[r] # NoPath)
            => ~(Exists(fs, created[r]) /\ fs[created[r]].by = r)

\* C2: every payload read_and_normalize returns is 512x512, and the image was
\* resized exactly when the decoded image was not already 512 rows by 512
\* columns.
C2_Output512 ==
    \A r \in Reqs :
        payload[r] # NoPayload =>
            /\ payload[r].size = <<512, 512>>
            /\ payload[r].resized <=>
                   ~(content[r].shape[1] = 512 /\ content[r].shape[2] = 512)

C2_Witness ==
    \E r, q \in Reqs :
        /\ payload[r] # NoPayload /\ payload[r].resized
        /\ content[r].shape = <<1024, 768>>
        /\ payload[q] # NoPayload /\ ~payload[q].resized

PipelineStages == {"classify", "read_dicom", "read_standard", "normalize", "encode"}
InPipeline(r) == pc[r] \in {"pipeline", "decode", "normalize", "encode"}
StageStep(r) ==
    Classify(r) \/ DecodeDicom(r) \/ DecodeRaster(r) \/ Normalize(r) \/ Encode(r)
FixedOrder(d) == <<"classify", d, "normalize", "encode">>

\* C10: an invocation of read_and_normalize runs classify, one decoder (the
\* one the classification chose), normalize and encode, each at most once and
\* in this order; nothing runs after a stage has raised; an invocation in
\* progress can always take its next step, and one that is over has returned
\* a payload or raised.
C10_SinglePass ==
    \A r \in Reqs :
        LET t == stages[r]
        IN  /\ \E d \in {"read_dicom", "read_standard"} :
                   Len(t) <= 4 /\ t = SubSeq(FixedOrder(d), 1, Len(t))
            /\ Len(t) >= 2 =>
                   t[2] = (IF is_dicom[r] THEN "read_dicom" ELSE "read_standard")
            /\ exc[r].stage \in PipelineStages =>
                   /\ t # <<>>
                   /\ t[Len(t)] = exc[r].stage
                   /\ ~InPipeline(r)
                   /\ payload[r] = NoPayload
            /\ payload[r] # NoPayload => Len(t) = 4
            /\ InPipeline(r) => ENABLED StageStep(r)
            /\ (t # <<>> /\ ~InPipeline(r)) =>
                   (payload[r] # NoPayload \/ exc[r].stage \in PipelineStages)

C10_Witness ==
    \E r, q \in Reqs :
        /\ payload[r] # NoPayload
        /\ stages[r] = <<"classify", "read_standard", "normalize", "encode">>
        /\ exc[q].stage = "read_dicom"
        /\ stages[q] = <<"classify", "read_dicom">>
        /\ pc[q] = "done"

\* C11: the error a failed read_and_normalize hands to its caller names the
\* stage that failed and the file, and an error of the decode stage differs
\* in kind from an error of the encode stage.
C11_ErrorContext ==
    \A r \in Reqs :
        exc[r].stage \in PipelineStages =>
            /\ exc[r].context = exc[r].stage
            /\ exc[r].file = tmp_file_path[r]
            /\ \A q \in Reqs :
                   (exc[r].stage \in {"classify", "read_dicom", "read_standard"}
                    /\ exc[q].stage = "encode") => exc[r].kind # exc[q].kind

\* The extensions of supported_formats.
SupportedExts ==
    { DotDcm, <<".", "p", "n", "g">>, <<".", "j", "p", "g">>,
      <<".", "j", "p", "e", "g">> }

\* C12: for a temporary file with a supported extension whose bytes neither
\* decoder parses, read_and_normalize raises in the decoder it chose and
\* returns no payload, the analyzer is not invoked, and the request is
\* answered 500, never 200.
C12_CorruptFails ==
    \A r \in Reqs :
        (/\ content[r].kind = "corrupt"
         /\ SplitextExt(tmp_file_path[r]) \in SupportedExts
         /\ stages[r] # <<>>) =>
            /\ payload[r] = NoPayload
            /\ analyzerCalls[r] = 0
            /\ resp[r] \in {0, 500}
            /\ ~InPipeline(r) =>
                   /\ exc[r].stage =
                          (IF SplitextExt(tmp_file_path[r]) = DotDcm
                           THEN "read_dicom" ELSE "read_standard")
                   /\ exc[r].kind \in {"InvalidDicomError", "UnidentifiedImageError"}
            /\ pc[r] = "done" => resp[r] = 500

C12_Witness ==
    \E r \in Reqs :
        /\ content[r].kind = "corrupt"
        /\ SplitextExt(tmp_file_path[r]) = <<".", "j", "p", "e", "g">>
        /\ exc[r].kind = "UnidentifiedImageError"
        /\ pc[r] = "done"
        /\ resp[r] = 500

\* Between the write of the temporary file and the end of the finally block.
HoldsFile(r) ==
    pc[r] \in {"pipeline", "decode", "normalize", "encode", "analyze", "finally"}

\* What read_and_normalize returns for the bytes c when nothing else runs.
AlonePayload(c) ==
    LET sz == PilSize(NormalizedShape(c.shape))
    IN  [size |-> IF ResizeNeeded(sz) THEN <<512, 512>> ELSE sz,
         resized |-> ResizeNeeded(sz)]

\* In every state: the fields of the ImageProcessor are those __init__ set;
\* the path a request works on holds the file that request created, with the
\* bytes that request uploaded; classification, decoded image and payload are
\* those of the request's own bytes in a directory holding nothing else.
Isolated ==
    /\ processor = NewImageProcessor
    /\ \A r \in Reqs :
         /\ HoldsFile(r) =>
                /\ Exists(fs, tmp_file_path[r])
                /\ fs[tmp_file_path[r]] = File(content[r], r)
                /\ \A q \in Reqs \ {r} :
                       HoldsFile(q) => tmp_file_path[q] # tmp_file_path[r]
         /\ Len(stages[r]) >= 2 =>
                is_dicom[r] =
                    IsDicomFile(tmp_file_path[r] :> File(content[r], r),
                                tmp_file_path[r]).result
         /\ payload[r] # NoPayload =>
                /\ content[r].kind \in {"dicom", "raster"}
                /\ payload[r] = AlonePayload(content[r])

\* In every step: no field of the ImageProcessor changes, and a file that is
\* created, written or deleted belongs to the request that takes the step.
OwnFileOnly ==
    /\ processor' = processor
    /\ \A p \in DOMAIN fs \cup DOMAIN fs' :
         (p \notin DOMAIN fs \/ p \notin DOMAIN fs' \/ fs'[p] # fs[p]) =>
             \E r \in Reqs :
                 /\ pc'[r] # pc[r]
                 /\ p \in DOMAIN fs => fs[p].by = r
                 /\ p \in DOMAIN fs' => fs'[p].by = r

\* C16: requests share no mutable state.  No step of a request changes a
\* field of the ImageProcessor; under every interleaving of two /analyze
\* requests each one creates, writes, reads and deletes its own temporary file
\* only, and its payload is the one it gets when it runs alone.
C16_NoSharedState == []Isolated /\ [][OwnFileOnly]_vars

C16_Witness ==
    /\ pc[1] = "analyze" /\ pc[2] = "analyze"
    /\ tmp_file_path[1] = <<"/", "t", "/", "1", ".", "d", "c", "m">>
    /\ tmp_file_path[2] = <<"/", "t", "/", "2", ".", "d", "c", "m">>
    /\ content[1].shape = <<256, 256>>
    /\ content[2].shape = <<512, 512, 3>>
    /\ payload[1].resized /\ ~payload[2].resized

\* C19: a request the content-type gate or the size gate rejects is answered
\* 400 with no temporary file created, no stage of read_and_normalize entered
\* and the analyzer not invoked.  The type gate rejects exactly a content
\* type that is None, empty, or starts with none of image/, application/dicom
\* and application/octet-stream; the size gate rejects exactly a size above
\* 50 MB (52428800 bytes), so an upload of exactly that size passes it.
C19_GatesFirst ==
    \A r \in Reqs :
        LET ct == content_type[r]
            allowed == \/ (Len(ct) >= 1 /\ ct[1] = "image/")
                       \/ ct = <<"application/dicom">>
                       \/ ct = <<"application/octet-stream">>
        IN  /\ resp[r] = 400 =>
                   /\ pc[r] = "done"
                   /\ created[r] = NoPath /\ tmp_file_path[r] = NoPath
                   /\ \A p \in DOMAIN fs : fs[p].by # r
                   /\ stages[r] = <<>>
                   /\ payload[r] = NoPayload
                   /\ analyzerCalls[r] = 0
                   /\ (ct # TypeUnset /\ ~allowed) \/ size[r] > 52428800
            /\ pc[r] = "read" => allowed
            /\ (pc[r] = "done" /\ ct # TypeUnset) => (~allowed /\ resp[r] = 400)
            /\ size[r] > 52428800 => resp[r] = 400
            /\ size[r] = 52428800 => (resp[r] # 400 /\ pc[r] # "read")
            /\ (created[r] # NoPath \/ stages[r] # <<>> \/ analyzerCalls[r] > 0) =>
                   (size[r] > 0 /\ size[r] <= 52428800 /\ ct = TypeUnset)

C19_Witness ==
    /\ resp[1] = 400 /\ content_type[1] = <<"text/", "plain">>
    /\ resp[2] = 200 /\ size[2] = 52428800

\* C20: within one request the analyzer is invoked at most once, and only
\* when read_and_normalize has returned a payload for the request's temporary
\* file; if read_and_normalize raised, the analyzer is not invoked and the
\* request is answered 500, never 200.
C20_AnalyzeAfterPayload ==
    \A r \in Reqs :
        /\ analyzerCalls[r] <= 1
        /\ analyzerCalls[r] = 1 =>
               /\ payload[r] # NoPayload
               /\ stages[r] # <<>> /\ stages[r][Len(stages[r])] = "encode"
               /\ tmp_file_path[r] # NoPath
               /\ exc[r].stage \notin PipelineStages
        /\ pc[r] = "analyze" => (payload[r] # NoPayload /\ analyzerCalls[r] = 0)
        /\ exc[r].stage \in PipelineStages =>
               /\ analyzerCalls[r] = 0
               /\ pc[r] \in {"finally", "done"}
               /\ resp[r] \in {0, 500}
               /\ pc[r] = "done" => resp[r] = 500
        /\ resp[r] = 200 => (analyzerCalls[r] = 1 /\ exc[r] = NoExc)

C20_Witness ==
    /\ pc[1] = "done" /\ resp[1] = 200 /\ analyzerCalls[1] = 1
    /\ pc[2] = "done" /\ resp[2] = 500 /\ analyzerCalls[2] = 0
    /\ exc[2].stage = "encode"


-----------------------------------------------------------------------------
(* _is_dicom_file on arbitrary paths and contents *)

SniffPaths ==
    { <<"a", ".", "d", "c", "m">>,
      <<"a", ".", "D", "C", "M">>,
      <<"a", ".", "D", "c", "m">>,
      <<"/", "t", "/", "1", ".", "d", "c", "m">>,
      <<"a", ".", "p">>,
      <<"a">>,
      <<".", "d", "c", "m">>,
      <<"/", "t", "/", ".", "d", "c", "m">>,
      <<"a", ".", "d", "c", "m", "/", "b">>,
      <<"a", ".", "d", "c", "m", ".", "p">> }

\* What is found at the path: nothing, a file no read is permitted on, or bytes.
MissingFile == [kind |-> "missing", shape |-> <<>>]
SniffFiles ==
    { MissingFile, EmptyBytes,
      [kind |-> "unreadable", shape |-> <<>>],
      [kind |-> "dicom", shape |-> <<512, 512>>],
      [kind |-> "dicom_nopixel", shape |-> <<>>],
      [kind |-> "raster", shape |-> <<256, 512>>],
      [kind |-> "corrupt", shape |-> <<>>] }

\* The directory holding just that file.
SniffFs(path, file) ==
    IF file = MissingFile THEN <<>> ELSE (path :> File(file, 0))

InitSniff ==
    /\ InitReq
    /\ dec = NoDec
    /\ enc = NoEnc
    /\ ana = NoAna
    /\ \E p \in SniffPaths, f \in SniffFiles :
         sniff = [path |-> p, file |-> f, state |-> "ready", raised |-> "none",
                  result |-> FALSE, read |-> FALSE]

\* image_processor.py lines 65-77.
SniffStep ==
    /\ sniff.state = "ready"
    /\ LET c == IsDicomFile(SniffFs(sniff.path, sniff.file), sniff.path)
       IN  sniff' = [sniff EXCEPT !.state = "returned", !.raised = c.raised,
                                  !.result = c.result, !.read = c.read]
    /\ UNCHANGED <<reqVars, dec, enc, ana>>

NextSniff == SniffStep

SpecSniff == InitSniff /\ [][NextSniff]_vars

\* The paths of SniffPaths whose extension, whatever its case, is .dcm.
DcmNamed ==
    { <<"a", ".", "d", "c", "m">>,
      <<"a", ".", "D", "C", "M">>,
      <<"a", ".", "D", "c", "m">>,
      <<"/", "t", "/", "1", ".", "d", "c", "m">> }

\* C9: _is_dicom_file raises for no path and no content; a path with the
\* extension .dcm is DICOM and the file is not read; any other path is DICOM
\* exactly when the header-only parse succeeds, and raster on every failure of
\* it, a missing or unreadable file included.
C9_SniffNeverRaises ==
    sniff.state = "returned" =>
        /\ sniff.raised = "none"
        /\ sniff.path \in DcmNamed => (sniff.result /\ ~sniff.read)
        /\ sniff.path \notin DcmNamed =>
               (sniff.result <=> sniff.file.kind \in {"dicom", "dicom_nopixel"})

C9_Witness ==
    /\ sniff.state = "returned"
    /\ sniff.path = <<"a", ".", "p">>
    /\ sniff.file = MissingFile
    /\ ~sniff.result


-----------------------------------------------------------------------------
(* read_and_normalize called on arbitrary paths and contents *)

\* The bytes found at the path.
DirectFiles ==
    { EmptyBytes,
      [kind |-> "dicom", shape |-> <<512, 512>>],
      [kind |-> "dicom_nopixel", shape |-> <<>>],
      [kind |-> "raster", shape |-> <<256, 512>>],
      [kind |-> "corrupt", shape |-> <<>>] }

\* read_and_normalize(file_path) entered by caller 1, for a file of a
\* directory that holds nothing else.
InitDirect ==
    /\ \E p \in SniffPaths, f \in DirectFiles :
         /\ tmp_file_path = [r \in Reqs |-> IF r = 1 THEN p ELSE NoPath]
         /\ content = [r \in Reqs |-> IF r = 1 THEN f ELSE NoContent]
         /\ fs = SniffFs(p, f)
    /\ pc = [r \in Reqs |-> IF r = 1 THEN "pipeline" ELSE "start"]
    /\ resp = [r \in Reqs |-> 0]
    /\ size = [r \in Reqs |-> 0]
    /\ created = [r \in Reqs |-> NoPath]
    /\ stages = [r \in Reqs |-> <<>>]
    /\ is_dicom = [r \in Reqs |-> FALSE]
    /\ img = [r \in Reqs |-> NoImage]
    /\ payload = [r \in Reqs |-> NoPayload]
    /\ exc = [r \in Reqs |-> NoExc]
    /\ analyzerCalls = [r \in Reqs |-> 0]
    /\ client = FALSE
    /\ content_type = [r \in Reqs |-> TypeUnset]
    /\ processor = NewImageProcessor
    /\ sniff = NoSniff /\ dec = NoDec /\ enc = NoEnc /\ ana = NoAna

NextDirect == StageStep(1)

SpecDirect == InitDirect /\ [][NextDirect]_vars

\* The path ends in the four characters .dcm, in any letter case.
EndsInDcm(p) ==
    /\ Len(p) >= 4
    /\ p[Len(p) - 3] = "."
    /\ p[Len(p) - 2] \in {"d", "D"}
    /\ p[Len(p) - 1] \in {"c", "C"}
    /\ p[Len(p)] \in {"m", "M"}

\* C21 as claimed: a file whose name ends in .dcm, in any letter case, is
\* classified DICOM, goes to the DICOM decoder and never to the raster
\* decoder; unless its content is a DICOM object with pixel data,
\* read_and_normalize raises in the DICOM decoder and returns no payload.
C21_DcmSuffix ==
    \A r \in Reqs :
        (EndsInDcm(tmp_file_path[r]) /\ stages[r] # <<>>) =>
            /\ \A k \in DOMAIN stages[r] : stages[r][k] # "read_standard"
            /\ Len(stages[r]) >= 2 => (is_dicom[r] /\ stages[r][2] = "read_dicom")
            /\ (content[r].kind # "dicom" /\ ~InPipeline(r)) =>
                   /\ exc[r].stage = "read_dicom"
                   /\ payload[r] = NoPayload

\* C21 as amended: the same for a file whose extension is .dcm, that is
\* whose name has a character other than a dot before the final .dcm.
C21_DcmExtension ==
    \A r \in Reqs :
        (tmp_file_path[r] \in DcmNamed /\ stages[r] # <<>>) =>
            /\ \A k \in DOMAIN stages[r] : stages[r][k] # "read_standard"
            /\ Len(stages[r]) >= 2 => (is_dicom[r] /\ stages[r][2] = "read_dicom")
            /\ (content[r].kind # "dicom" /\ ~InPipeline(r)) =>
                   /\ exc[r].stage = "read_dicom"
                   /\ payload[r] = NoPayload

C21_Witness ==
    /\ tmp_file_path[1] = <<"a", ".", "D", "c", "m">>
    /\ content[1].kind = "raster"
    /\ stages[1] = <<"classify", "read_dicom">>
    /\ exc[1].kind = "InvalidDicomError"
    /\ payload[1] = NoPayload


-----------------------------------------------------------------------------
(* Pixel data: one-row images as sequences of samples *)

MaxLen == 3

Max(a, b) == IF a >= b THEN a ELSE b
Min(a, b) == IF a <= b THEN a ELSE b
Range(q) == {q[i] : i \in DOMAIN q}
\* np.max, np.min, ndarray.max, ndarray.min
ArrMax(q) == CHOOSE m \in Range(q) : \A v \in Range(q) : v <= m
ArrMin(q) == CHOOSE m \in Range(q) : \A v \in Range(q) : m <= v

SeqsUpTo(S, n) == UNION {[1..k -> S] : k \in 1..n}

\* Stored values of 16-bit pixel data: signed (PixelRepresentation 1, int16)
\* and unsigned (uint16).
SignedValues == {-20000, -1350, -600, 150, 20000}
UnsignedValues == {0, 40000}

\* Arithmetic of the array's own integer type wraps around.
WrapInt16(v) == ((v + 32768) % 65536) - 32768
WrapUint16(v) == v % 65536
Wrap(v, signed) == IF signed THEN WrapInt16(v) ELSE WrapUint16(v)

\* A dataset attribute: absent, a single value, or a list / MultiValue.
AbsentAttr == [present |-> FALSE, multi |-> FALSE, vals |-> <<>>]
Scalar(v) == [present |-> TRUE, multi |-> FALSE, vals |-> <<v>>]
Multi(vs) == [present |-> TRUE, multi |-> TRUE, vals |-> vs]

Centers == {-600, 40}
Widths == {0, 1500}
AttrsOver(S) ==
    {AbsentAttr, Multi(<<>>)}
    \cup {Scalar(v) : v \in S}
    \cup {Multi(<<p[1], p[2]>>) : p \in {q \in S \X S : q[1] # q[2]}}

Datasets ==
    [pixels : SeqsUpTo(SignedValues, MaxLen), signed : {TRUE},
     photometric : {"absent", "MONOCHROME1", "MONOCHROME2"},
     WindowCenter : AttrsOver(Centers), WindowWidth : AttrsOver(Widths)]
    \cup
    [pixels : SeqsUpTo(UnsignedValues, MaxLen), signed : {FALSE},
     photometric : {"absent", "MONOCHROME1", "MONOCHROME2"},
     WindowCenter : AttrsOver(Centers), WindowWidth : AttrsOver(Widths)]

\* What astype(np.uint8) makes of NaN: the C conversion is undefined, and the
\* value is whatever the build produces.
NaNCasts == {0, 128, 255}

\* A windowing that measures from the upper bound: dark and bright swapped.
ApplyWindowLevelInverted(image, center2, window_width, nan) ==
    LET min2 == center2 - window_width
        max2 == center2 + window_width
        clip2(v) == Min(Max(2 * v, min2), max2)
    IN  [arr |-> [i \in DOMAIN image |->
                    IF max2 = min2 THEN nan
                    ELSE ((max2 - clip2(image[i])) * 255) \div (max2 - min2)],
         divisors |-> <<(max2 - min2) \div 2>>]

\* image_processor.py lines 133-141, center2 being twice the window center.
\* Samples and bounds are doubled so that center - width/2 stays an integer;
\* divisors lists max_val - min_val.
ApplyWindowLevelAt(image, center2, window_width, nan) ==
    LET min2 == center2 - window_width
        max2 == center2 + window_width
        clip2(v) == Min(Max(2 * v, min2), max2)
    IN  [arr |-> [i \in DOMAIN image |->
                    IF max2 = min2 THEN nan
                    ELSE ((clip2(image[i]) - min2) * 255) \div (max2 - min2)],
         divisors |-> <<(max2 - min2) \div 2>>]

\* A windowing that does not clip: samples outside the window wrap around in
\* the cast to uint8.
ApplyWindowLevelNoClip(image, window_center, window_width, nan) ==
    LET min2 == 2 * window_center - window_width
        max2 == 2 * window_center + window_width
    IN  [arr |-> [i \in DOMAIN image |->
                    IF max2 = min2 THEN nan
                    ELSE (((2 * image[i] - min2) * 255) \div (max2 - min2)) % 256],
         divisors |-> <<(max2 - min2) \div 2>>]

\* image_processor.py lines 133-141, for an integer window center.
ApplyWindowLevel(image, window_center, window_width, nan) ==
    ApplyWindowLevelAt(image, 2 * window_center, window_width, nan)

\* The last element of a multi-valued attribute.
ResolveLast(attr) == attr.vals[Len(attr.vals)]

\* image_processor.py lines 95-101: the attribute's value, its first element
\* when it is a list or MultiValue.
Resolve(attr) == attr.vals[1]

NoOut == [raised |-> "none", arr |-> <<>>, pre |-> <<>>, windowed |-> FALSE,
          divisors |-> <<>>]

\* A decode that windows whenever either attribute is present, the lung
\* window (-600, 1500) standing in for the missing one.
ReadDicomEitherAttr(ds, nan) ==
    LET pixel_array == ds.pixels
        inverted ==
            IF ds.photometric = "MONOCHROME1"
            THEN [i \in DOMAIN pixel_array |->
                     Wrap(ArrMax(pixel_array) - pixel_array[i], ds.signed)]
            ELSE pixel_array
        center == IF ds.WindowCenter.vals = <<>> THEN -600 ELSE ds.WindowCenter.vals[1]
        width == IF ds.WindowWidth.vals = <<>> THEN 1500 ELSE ds.WindowWidth.vals[1]
    IN  IF ds.WindowCenter.present \/ ds.WindowWidth.present
        THEN LET w == ApplyWindowLevel(inverted, center, width, nan)
             IN  [raised |-> "none", arr |-> w.arr, pre |-> inverted,
                  windowed |-> TRUE, divisors |-> w.divisors]
        ELSE [raised |-> "none", arr |-> inverted, pre |-> inverted,
              windowed |-> FALSE, divisors |-> <<>>]

\* image_processor.py lines 84-106: [raised, arr (the array returned), pre
\* (the array before windowing), windowed, divisors].
ReadDicom(ds, nan) ==
    LET pixel_array == ds.pixels
        inverted ==
            IF ds.photometric = "MONOCHROME1"
            THEN [i \in DOMAIN pixel_array |->
                     Wrap(ArrMax(pixel_array) - pixel_array[i], ds.signed)]
            ELSE pixel_array
    IN  IF ds.WindowCenter.present /\ ds.WindowWidth.present
        THEN IF \/ (ds.WindowCenter.multi /\ ds.WindowCenter.vals = <<>>)
                \/ (ds.WindowWidth.multi /\ ds.WindowWidth.vals = <<>>)
             THEN [NoOut EXCEPT !.raised = "IndexError"]
             ELSE LET w == ApplyWindowLevel(inverted, Resolve(ds.WindowCenter),
                                            Resolve(ds.WindowWidth), nan)
                  IN  [raised |-> "none", arr |-> w.arr, pre |-> inverted,
                       windowed |-> TRUE, divisors |-> w.divisors]
        ELSE [raised |-> "none", arr |-> inverted, pre |-> inverted,
              windowed |-> FALSE, divisors |-> <<>>]

\* A min/max step that does not subtract the minimum; the cast to uint8 wraps.
MinMaxScaleNoOffset(image, nan) ==
    LET mx == ArrMax(image)
        mn == ArrMin(image)
    IN  IF mx > mn
        THEN [arr |-> [i \in DOMAIN image |-> ((image[i] * 255) \div (mx - mn)) % 256],
              divisors |-> <<mx - mn>>]
        ELSE [arr |-> [i \in DOMAIN image |-> 0], divisors |-> <<>>]

\* A min/max step that divides whatever the range is.
MinMaxScaleUnguarded(image, nan) ==
    LET mx == ArrMax(image)
        mn == ArrMin(image)
    IN  [arr |-> [i \in DOMAIN image |->
                    IF mx = mn THEN nan ELSE ((image[i] - mn) * 255) \div (mx - mn)],
         divisors |-> <<mx - mn>>]

\* image_processor.py lines 151-160: min/max normalization and the cast to
\* uint8; divisors lists image.max() - image.min() when the division is made.
MinMaxScale(image, nan) ==
    LET mx == ArrMax(image)
        mn == ArrMin(image)
    IN  IF mx > mn
        THEN [arr |-> [i \in DOMAIN image |-> ((image[i] - mn) * 255) \div (mx - mn)],
              divisors |-> <<mx - mn>>]
        ELSE [arr |-> [i \in DOMAIN image |-> 0], divisors |-> <<>>]

\* cvRound of n/d, n >= 0, d > 0: to the nearest, halves to even.
RoundHalfEven(n, d) ==
    LET q == n \div d
        r == n % d
    IN  IF 2 * r < d THEN q
        ELSE IF 2 * r > d THEN q + 1
        ELSE IF q % 2 = 0 THEN q ELSE q + 1

\* An equalization that ranks the grey levels from the brightest down.
EqualizeHistDescending(a) ==
    LET total == Len(a)
        last == ArrMax(a)
        hist(v) == Cardinality({i \in DOMAIN a : a[i] = v})
        ccdf(v) == Cardinality({i \in DOMAIN a : a[i] >= v})
    IN  IF hist(last) = total THEN a
        ELSE [i \in DOMAIN a |->
                 RoundHalfEven(255 * (ccdf(a[i]) - hist(last)), total - hist(last))]

\* cv2.equalizeHist (image_processor.py line 161): an image of one grey level
\* is returned as it is; otherwise each level v maps to
\* round(255 * (cdf(v) - hist(first)) / (total - hist(first))).
EqualizeHist(a) ==
    LET total == Len(a)
        first == ArrMin(a)
        hist(v) == Cardinality({i \in DOMAIN a : a[i] = v})
        cdf(v) == Cardinality({i \in DOMAIN a : a[i] <= v})
    IN  IF hist(first) = total THEN a
        ELSE [i \in DOMAIN a |->
                 RoundHalfEven(255 * (cdf(a[i]) - hist(first)), total - hist(first))]

\* cv2.GaussianBlur(_, (3, 3), 0) on a one-row image (line 164): the kernel
\* (1, 2, 1)/4 along the row, borders reflected without repeating the edge
\* sample, rounded to the nearest.
GaussianBlur3(a) ==
    LET n == Len(a)
        at(i) == IF n = 1 THEN a[1]
                 ELSE IF i < 1 THEN a[2]
                 ELSE IF i > n THEN a[n - 1]
                 ELSE a[i]
    IN  [i \in DOMAIN a |-> (at(i - 1) + 2 * a[i] + at(i + 1) + 2) \div 4]

NoNorm == [arr |-> <<>>, scaled |-> <<>>, equalized |-> <<>>, divisors |-> <<>>]
NoAgain == [arr |-> <<>>, divisors |-> <<>>]

\* image_processor.py lines 143-166: [arr (the array returned), scaled (the
\* array after the cast to uint8), equalized (the array after equalizeHist),
\* divisors].
NormalizeCt(image, nan) ==
    LET m == MinMaxScale(image, nan)
    IN  [arr |-> GaussianBlur3(EqualizeHist(m.arr)), scaled |-> m.arr,
         equalized |-> EqualizeHist(m.arr), divisors |-> m.divisors]

InitDecode ==
    /\ InitReq
    /\ sniff = NoSniff
    /\ enc = NoEnc
    /\ ana = NoAna
    /\ \E d \in Datasets :
         dec = [state |-> "loaded", ds |-> d, nan |-> 0, out |-> NoOut,
                norm |-> NoNorm, again |-> NoAgain]

\* image_processor.py line 43, for the dataset of the file.
ReadDicomStep ==
    /\ dec.state = "loaded"
    /\ \E n \in NaNCasts :
         LET o == ReadDicom(dec.ds, n)
         IN  dec' = [dec EXCEPT !.state = IF o.raised = "none" THEN "decoded" ELSE "raised",
                                !.out = o,
                                !.nan = IF 0 \in Range(o.divisors) THEN n ELSE 0]
    /\ UNCHANGED <<reqVars, sniff, enc, ana>>

\* image_processor.py line 48.
NormalizeStep ==
    /\ dec.state = "decoded"
    /\ dec' = [dec EXCEPT !.state = "normalized",
                          !.norm = NormalizeCt(dec.out.arr, dec.nan)]
    /\ UNCHANGED <<reqVars, sniff, enc, ana>>

NextDecode == ReadDicomStep \/ NormalizeStep

SpecDecode == InitDecode /\ [][NextDecode]_vars

\* _apply_window_level applied to its own output w, with the window that w
\* spans: center (min(w) + max(w)) / 2 and width max(w) - min(w).
RewindowStep ==
    /\ dec.state = "decoded"
    /\ dec.out.windowed
    /\ \E n \in NaNCasts :
         LET w == dec.out.arr
         IN  dec' = [dec EXCEPT !.state = "rewindowed",
                                !.again = ApplyWindowLevelAt(w, ArrMin(w) + ArrMax(w),
                                                             ArrMax(w) - ArrMin(w), n)]
    /\ UNCHANGED <<reqVars, sniff, enc, ana>>

NextRewindow == ReadDicomStep \/ RewindowStep

SpecRewindow == InitDecode /\ [][NextRewindow]_vars

\* The same decode, of the datasets that carry no window attribute.
InitDecodeUnwindowed ==
    /\ InitDecode
    /\ dec.ds.WindowCenter = AbsentAttr
    /\ dec.ds.WindowWidth = AbsentAttr

SpecDecodeUnwindowed == InitDecodeUnwindowed /\ [][NextDecode]_vars


-----------------------------------------------------------------------------
(* Properties of the pixel level decode *)

Decoded == dec.state \in {"decoded", "normalized"}

\* C3: the windowing transform never divides by zero: no evaluation of
\* (value - low) / (high - low) has high = low.
C3_NoZeroDivision ==
    Decoded => \A k \in DOMAIN dec.out.divisors : dec.out.divisors[k] # 0

\* Window attributes that are present and inconsistent: a zero width, or a
\* multi-valued attribute without a first element.
Inconsistent(ds) ==
    /\ ds.WindowCenter.present /\ ds.WindowWidth.present
    /\ \/ ds.WindowCenter.vals = <<>>
       \/ ds.WindowWidth.vals = <<>>
       \/ ds.WindowWidth.vals[1] = 0

\* C4: with inconsistent window attributes the decode does not fail, skips
\* the windowing, and the normalized image is the min/max normalization of
\* the unwindowed array.
C4_SkipsWindowing ==
    Inconsistent(dec.ds) =>
        /\ dec.state # "raised"
        /\ Decoded => (~dec.out.windowed /\ dec.out.arr = dec.out.pre)
        /\ dec.state = "normalized" =>
               dec.norm.arr = GaussianBlur3(EqualizeHist(MinMaxScale(dec.out.pre, 0).arr))

\* C5: for a width > 0 every windowed sample lies in 0..255, a sample at or
\* below center - width/2 maps to 0, one at or above center + width/2 to 255,
\* and in between the output is the linear rescaling cut to an integer; with
\* center -600 and width 1500 the samples -1350, 150 and -600 map to 0, 255
\* and 127 or 128.
C5_Windowing ==
    (Decoded /\ dec.out.windowed /\ dec.ds.WindowWidth.vals[1] > 0) =>
        LET c == dec.ds.WindowCenter.vals[1]
            w == dec.ds.WindowWidth.vals[1]
            x == dec.out.pre
            y == dec.out.arr
        IN  /\ Len(y) = Len(x)
            /\ \A i \in DOMAIN x :
                 /\ y[i] \in 0..255
                 /\ 2 * x[i] <= 2 * c - w => y[i] = 0
                 /\ 2 * x[i] >= 2 * c + w => y[i] = 255
                 /\ (2 * c - w <= 2 * x[i] /\ 2 * x[i] <= 2 * c + w) =>
                        /\ y[i] * 2 * w <= 255 * (2 * x[i] - (2 * c - w))
                        /\ 255 * (2 * x[i] - (2 * c - w)) < (y[i] + 1) * 2 * w
                 /\ (c = -600 /\ w = 1500 /\ x[i] = -1350) => y[i] = 0
                 /\ (c = -600 /\ w = 1500 /\ x[i] = 150) => y[i] = 255
                 /\ (c = -600 /\ w = 1500 /\ x[i] = -600) => y[i] \in {127, 128}
            /\ \A i, j \in DOMAIN x : x[i] <= x[j] => y[i] <= y[j]

C5_Witness ==
    /\ Decoded /\ dec.out.windowed
    /\ dec.ds.WindowCenter = Scalar(-600) /\ dec.ds.WindowWidth = Scalar(1500)
    /\ dec.out.pre = <<-1350, 150, -600>>
    /\ dec.out.arr = <<0, 255, 127>>

\* C6: a flat input (maximum = minimum) normalizes to an all-zero array of
\* the same size, and the division by (max - min) is not evaluated.
C6_FlatImage ==
    (dec.state = "normalized" /\ ArrMax(dec.out.arr) = ArrMin(dec.out.arr)) =>
        /\ Len(dec.norm.arr) = Len(dec.out.arr)
        /\ \A i \in DOMAIN dec.norm.arr : dec.norm.arr[i] = 0
        /\ dec.norm.divisors = <<>>

C6_Witness ==
    /\ dec.state = "normalized"
    /\ dec.out.arr = <<-600, -600, -600>>
    /\ dec.norm.arr = <<0, 0, 0>>

\* C7: for a MONOCHROME1 dataset the array _read_dicom returns is
\* max(original) - original, sample by sample, so the order of any two samples
\* is reversed, with or without window attributes.
C7_Inversion ==
    (Decoded /\ dec.ds.photometric = "MONOCHROME1") =>
        LET x == dec.ds.pixels
            y == dec.out.arr
        IN  /\ \A i \in DOMAIN x : y[i] = ArrMax(x) - x[i]
            /\ \A i, j \in DOMAIN x : x[i] < x[j] => y[i] > y[j]

\* The dataset with each attribute of two or more values replaced by the
\* single value that is its first element.
FirstOnly(attr) ==
    IF attr.multi /\ Len(attr.vals) >= 2 THEN Scalar(attr.vals[1]) ELSE attr
SingleValued(ds) ==
    [ds EXCEPT !.WindowCenter = FirstOnly(@), !.WindowWidth = FirstOnly(@)]
HasMultiValue(ds) ==
    \/ ds.WindowCenter.multi /\ Len(ds.WindowCenter.vals) >= 2
    \/ ds.WindowWidth.multi /\ Len(ds.WindowWidth.vals) >= 2

\* C8: with WindowCenter and/or WindowWidth holding two or more values,
\* _read_dicom gives what it gives for the same pixel data with single-valued
\* attributes equal to the first elements.
C8_FirstValue ==
    (dec.state # "loaded" /\ HasMultiValue(dec.ds)) =>
        dec.out = ReadDicom(SingleValued(dec.ds), dec.nan)

C8_Witness ==
    /\ Decoded /\ dec.out.windowed
    /\ dec.ds.WindowCenter = Multi(<<-600, 40>>)
    /\ dec.ds.WindowWidth = Multi(<<1500, 0>>)
    /\ dec.ds.pixels = <<-1350, 150, -600>>
    /\ dec.out.arr = <<0, 255, 127>>

\* C14 as claimed: windowing the output w of a windowing again, with center
\* (min(w) + max(w)) / 2 and width max(w) - min(w), returns w to within one
\* grey level.
C14_Idempotent ==
    dec.state = "rewindowed" =>
        /\ Len(dec.again.arr) = Len(dec.out.arr)
        /\ \A i \in DOMAIN dec.out.arr :
             /\ dec.again.arr[i] - dec.out.arr[i] <= 1
             /\ dec.out.arr[i] - dec.again.arr[i] <= 1

\* C14 as amended: the same, for an output w whose minimum is 0 and whose
\* maximum is 255; the second windowing divides by 255.
C14_IdempotentFullRange ==
    (/\ dec.state = "rewindowed"
     /\ ArrMin(dec.out.arr) = 0
     /\ ArrMax(dec.out.arr) = 255) =>
        /\ Len(dec.again.arr) = Len(dec.out.arr)
        /\ dec.again.divisors = <<255>>
        /\ \A i \in DOMAIN dec.out.arr :
             /\ dec.again.arr[i] - dec.out.arr[i] <= 1
             /\ dec.out.arr[i] - dec.again.arr[i] <= 1

C14_Witness ==
    /\ dec.state = "rewindowed"
    /\ dec.out.arr = <<0, 255, 127>>
    /\ dec.again.arr = <<0, 255, 127>>

\* C15: the array _read_dicom returns went through the windowing exactly when
\* the dataset has both WindowCenter and WindowWidth; with either one absent
\* the decode does not fail and returns the decoded samples as they are, or,
\* for MONOCHROME1, their inversion in the array's own 16-bit type.
C15_WindowingFrame ==
    LET ds == dec.ds
        both == ds.WindowCenter.present /\ ds.WindowWidth.present
        y == dec.out.arr
    IN  /\ Decoded =>
               /\ dec.out.windowed <=> both
               /\ dec.out.divisors # <<>> <=> both
        /\ (dec.state # "loaded" /\ ~both) =>
               /\ dec.state # "raised"
               /\ Len(y) = Len(ds.pixels)
               /\ ds.photometric # "MONOCHROME1" => y = ds.pixels
               /\ ds.photometric = "MONOCHROME1" =>
                      \A i \in DOMAIN y :
                          /\ y[i] = Wrap(y[i], ds.signed)
                          /\ (y[i] - (ArrMax(ds.pixels) - ds.pixels[i])) % 65536 = 0

C15_Witness ==
    /\ Decoded
    /\ dec.ds.WindowCenter = Scalar(-600)
    /\ dec.ds.WindowWidth = AbsentAttr
    /\ dec.ds.photometric = "MONOCHROME1"
    /\ dec.ds.pixels = <<-1350, 150, -600>>
    /\ dec.out.arr = <<1500, 0, 750>>

\* C17 as claimed: for a windowed DICOM input, two samples whose windowed
\* values are in one order are never in the opposite order in the array
\* _normalize_ct_image returns (after min/max, equalization and blur).
C17_Monotone ==
    (dec.state = "normalized" /\ dec.out.windowed) =>
        \A i, j \in DOMAIN dec.out.arr :
            dec.out.arr[i] <= dec.out.arr[j] => dec.norm.arr[i] <= dec.norm.arr[j]

\* C17 as amended: the order is kept by the min/max normalization and by the
\* histogram equalization, the stages that map each sample by its own value.
C17_MonotoneToEqualization ==
    (dec.state = "normalized" /\ dec.out.windowed) =>
        /\ Len(dec.norm.scaled) = Len(dec.out.arr)
        /\ Len(dec.norm.equalized) = Len(dec.out.arr)
        /\ \A i, j \in DOMAIN dec.out.arr :
             dec.out.arr[i] <= dec.out.arr[j] =>
                 /\ dec.norm.scaled[i] <= dec.norm.scaled[j]
                 /\ dec.norm.equalized[i] <= dec.norm.equalized[j]

C17_Witness ==
    /\ dec.state = "normalized" /\ dec.out.windowed
    /\ dec.out.arr = <<0, 255, 127>>
    /\ dec.norm.scaled = <<0, 255, 127>>
    /\ dec.norm.equalized = <<0, 255, 128>>
    /\ dec.norm.arr = <<128, 160, 192>>

\* C18: for an input with max > min the array that enters the equalization
\* has, for each sample x, the value 255 * (x - min) / (max - min) cut to an
\* integer (to within one grey level): every value lies in 0..255, the
\* minimum maps to 0, the maximum to 255, and the order of any two samples is
\* kept, ties allowed.
C18_MinMax ==
    (dec.state = "normalized" /\ ArrMax(dec.out.arr) > ArrMin(dec.out.arr)) =>
        LET x == dec.out.arr
            y == dec.norm.scaled
            mn == ArrMin(x)
            d == ArrMax(x) - ArrMin(x)
        IN  /\ Len(y) = Len(x)
            /\ dec.norm.divisors = <<d>>
            /\ \A i \in DOMAIN x :
                 /\ y[i] \in 0..255
                 /\ (y[i] - 1) * d <= 255 * (x[i] - mn)
                 /\ 255 * (x[i] - mn) < (y[i] + 2) * d
                 /\ x[i] = mn => y[i] = 0
                 /\ x[i] = mn + d => y[i] = 255
            /\ \A i, j \in DOMAIN x : x[i] <= x[j] => y[i] <= y[j]

C18_Witness ==
    /\ dec.state = "normalized"
    /\ ~dec.out.windowed
    /\ dec.out.arr = <<-1350, 20000, -600>>
    /\ dec.norm.scaled = <<0, 255, 8>>


-----------------------------------------------------------------------------
(* _pil_to_base64: the payload string, as a sequence of characters *)

MaxBytes == 4

\* Values of the bytes image.save writes into the buffer.
ByteValues == {0, 80, 137, 255}

\* The alphabet of base64.b64encode (RFC 4648, section 4).
B64Alphabet ==
    << "A", "B", "C", "D", "E", "F", "G", "H", "I", "J", "K", "L", "M", "N",
       "O", "P", "Q", "R", "S", "T", "U", "V", "W", "X", "Y", "Z",
       "a", "b", "c", "d", "e", "f", "g", "h", "i", "j", "k", "l", "m", "n",
       "o", "p", "q", "r", "s", "t", "u", "v", "w", "x", "y", "z",
       "0", "1", "2", "3", "4", "5", "6", "7", "8", "9",
       "+", "/" >>

\* The alphabet of base64.urlsafe_b64encode (RFC 4648, section 5).
B64UrlSafeAlphabet == [i \in 1..64 |->
    IF i = 63 THEN "-" ELSE IF i = 64 THEN "_" ELSE B64Alphabet[i]]

\* Base64 of a byte string: three bytes give four characters of six bits
\* each; a rest of one or two bytes is filled with zero bits and padded
\* with "=".
RECURSIVE B64EncodeWith(_, _)
B64EncodeWith(b, abc) ==
    IF Len(b) = 0 THEN <<>>
    ELSE IF Len(b) = 1
    THEN << abc[(b[1] \div 4) + 1], abc[(b[1] % 4) * 16 + 1], "=", "=" >>
    ELSE IF Len(b) = 2
    THEN << abc[(b[1] \div 4) + 1], abc[(b[1] % 4) * 16 + (b[2] \div 16) + 1],
            abc[(b[2] % 16) * 4 + 1], "=" >>
    ELSE << abc[(b[1] \div 4) + 1], abc[(b[1] % 4) * 16 + (b[2] \div 16) + 1],
            abc[(b[2] % 16) * 4 + (b[3] \div 64) + 1], abc[(b[3] % 64) + 1] >>
         \o B64EncodeWith(SubSeq(b, 4, Len(b)), abc)

\* base64.urlsafe_b64encode
B64EncodeUrlSafe(b) == B64EncodeWith(b, B64UrlSafeAlphabet)

\* base64.b64encode (image_processor.py line 171)
B64Encode(b) == B64EncodeWith(b, B64Alphabet)

\* The six bits a character of the standard alphabet stands for.
B64Index(c) == (CHOOSE i \in 1..64 : B64Alphabet[i] = c) - 1

\* What base64.b64decode(s, validate=True) accepts: groups of four characters
\* of the alphabet, "=" in the last one or two places only.
B64Valid(s) ==
    /\ Len(s) % 4 = 0
    /\ \A i \in 1..Len(s) :
         \/ s[i] \in {B64Alphabet[k] : k \in 1..64}
         \/ s[i] = "=" /\ i >= Len(s) - 1 /\ s[Len(s)] = "="

\* base64.b64decode of a string B64Valid accepts.
RECURSIVE B64Decode(_)
B64Decode(s) ==
    IF Len(s) = 0 THEN <<>>
    ELSE LET i1 == B64Index(s[1])
             i2 == B64Index(s[2])
             rest == B64Decode(SubSeq(s, 5, Len(s)))
         IN  IF s[3] = "=" THEN << i1 * 4 + (i2 \div 16) >> \o rest
             ELSE LET i3 == B64Index(s[3])
                  IN  IF s[4] = "="
                      THEN << i1 * 4 + (i2 \div 16), (i2 % 16) * 16 + (i3 \div 4) >> \o rest
                      ELSE << i1 * 4 + (i2 \div 16), (i2 % 16) * 16 + (i3 \div 4),
                              (i3 % 4) * 64 + B64Index(s[4]) >> \o rest

\* Line 174: the head of the f-string.
DataUriPrefix ==
    << "d", "a", "t", "a", ":", "i", "m", "a", "g", "e", "/", "p", "n", "g",
       ";", "b", "a", "s", "e", "6", "4", "," >>

\* image_processor.py lines 170-174, for the bytes image.save wrote.
PilToBase64(png) == DataUriPrefix \o B64Encode(png)

InitEncode ==
    /\ InitReq
    /\ sniff = NoSniff
    /\ dec = NoDec
    /\ ana = NoAna
    /\ \E b \in SeqsUpTo(ByteValues, MaxBytes) :
         enc = [state |-> "saved", bytes |-> b, payload |-> <<>>]

\* image_processor.py line 56.
PilToBase64Step ==
    /\ enc.state = "saved"
    /\ enc' = [enc EXCEPT !.state = "returned", !.payload = PilToBase64(enc.bytes)]
    /\ UNCHANGED <<reqVars, sniff, dec, ana>>

NextEncode == PilToBase64Step

SpecEncode == InitEncode /\ [][NextEncode]_vars

\* C13: the payload is the characters data:image/png;base64, followed by
\* nothing but the base64 text of the serialized bytes: the rest is valid
\* base64, as long as the encoding of that many bytes is, and decodes to
\* exactly those bytes.
C13_DataUri ==
    enc.state = "returned" =>
        LET head == << "d", "a", "t", "a", ":", "i", "m", "a", "g", "e", "/", "p", "n", "g",
                       ";", "b", "a", "s", "e", "6", "4", "," >>
            rest == SubSeq(enc.payload, Len(head) + 1, Len(enc.payload))
        IN  /\ Len(enc.payload) >= Len(head)
            /\ SubSeq(enc.payload, 1, Len(head)) = head
            /\ Len(rest) = 4 * ((Len(enc.bytes) + 2) \div 3)
            /\ B64Valid(rest)
            /\ B64Decode(rest) = enc.bytes

C13_Witness ==
    /\ enc.state = "returned"
    /\ enc.bytes = <<137, 80, 255, 0>>
    /\ SubSeq(enc.payload, 23, Len(enc.payload)) =
           <<"i", "V", "D", "/", "A", "A", "=", "=">>


-----------------------------------------------------------------------------
(* vision_analyzer.py: analyze_ct_scan on the responses of the remote model *)

\* A JSON value of the tool call's arguments: a key that is missing, null, a
\* string (a sequence of tokens, <<>> the empty string) or a number.
\* Confidences are numbers in hundredths.
JAbsent == [type |-> "absent", s |-> <<>>, n |-> 0]
JNull == [type |-> "null", s |-> <<>>, n |-> 0]
JStr(s) == [type |-> "string", s |-> s, n |-> 0]
JNum(n) == [type |-> "number", s |-> <<>>, n |-> n]

\* The value of confidence_scores: missing, an object, or something else.
NoScores ==
    [type |-> "absent", t_confidence |-> JAbsent, n_confidence |-> JAbsent,
     m_confidence |-> JAbsent, overall_confidence |-> JAbsent]
ScoreObject(t, n, m, o) ==
    [type |-> "object", t_confidence |-> t, n_confidence |-> n,
     m_confidence |-> m, overall_confidence |-> o]
ScoreValues ==
    { NoScores,
      [NoScores EXCEPT !.type = "null"],
      [NoScores EXCEPT !.type = "string"],
      ScoreObject(JNum(90), JNum(80), JNum(100), JNum(85)),
      ScoreObject(JNum(90), JAbsent, JAbsent, JAbsent),
      ScoreObject(JNum(150), JNum(80), JNum(70), JNum(85)),
      ScoreObject(JStr(<<"high">>), JNum(80), JNum(70), JNum(85)),
      ScoreObject(JNum(90), JNull, JNum(70), JNum(85)) }

\* tool_call.function.arguments: text that is not JSON, JSON that is not an
\* object, or an object.
NoArguments ==
    [form |-> "none", error |-> JAbsent, t_stage |-> JAbsent, n_stage |-> JAbsent,
     m_stage |-> JAbsent, overall_stage |-> JAbsent, confidence_scores |-> NoScores]
ArgumentObjects ==
    [form : {"object"},
     error : {JAbsent, JNull, JStr(<<>>), JStr(<<"non-diagnostic image">>),
              JNum(0), JNum(5)},
     t_stage : {JAbsent, JStr(<<"T1">>), JNum(7)},
     n_stage : {JAbsent, JStr(<<"N0">>)},
     m_stage : {JStr(<<"M0">>)},
     overall_stage : {JAbsent, JStr(<<"IA1">>)},
     confidence_scores : ScoreValues]
Arguments ==
    { [NoArguments EXCEPT !.form = f] : f \in {"invalid", "null", "array"} }
    \cup ArgumentObjects

\* What the try block of analyze_ct_scan meets: the prompts cannot be built,
\* the remote call raises, the response has no choice, the message has no
\* tool call, or it has one.
Responses ==
    { [kind |-> k, arguments |-> NoArguments] :
          k \in {"prompt_error", "api_error", "no_choices", "no_tool_calls"} }
    \cup [kind : {"tool_call"}, arguments : Arguments]

\* A StagingResult; None is JNull.
NoResult ==
    [t |-> JNull, n |-> JNull, m |-> JNull, stage |-> JNull,
     confidences |-> [t |-> 0, n |-> 0, m |-> 0, stage |-> 0], error |-> JNull]

\* Lines 161-168, 172-179, 193-197, 219-226: the result of a failure.
ErrorResult(msg) == [NoResult EXCEPT !.error = JStr(msg)]

\* bool(value)
Truthy(v) ==
    \/ v.type = "string" /\ v.s # <<>>
    \/ v.type = "number" /\ v.n # 0

\* dict.get(key): None for a missing key.
DictGet(v) == IF v.type = "absent" THEN JNull ELSE v

\* dict.get(key, 0.0)
DictGetFloat(v) == IF v.type = "absent" THEN JNum(0) ELSE v

\* str(n) for the numbers of the model.
NumText(n) == CASE n = 0 -> "0" [] n = 5 -> "5" [] n = 7 -> "7" [] OTHER -> "n"

\* pydantic's validation of an Optional[str] field: None and strings pass; a
\* number is turned into a string by a build that coerces (pydantic 1) and
\* rejected by one that does not (pydantic 2).
OptStrOk(v, coerce) == v.type \in {"null", "string"} \/ (v.type = "number" /\ coerce)
OptStrVal(v) == IF v.type = "number" THEN JStr(<<NumText(v.n)>>) ELSE v

\* pydantic's validation of a confidence: a number from 0.0 to 1.0.
FloatOk(v) == v.type = "number" /\ v.n >= 0 /\ v.n <= 100

ParseFailed(kind) == ErrorResult(<<"Failed to parse analysis result: ", kind>>)

\* vision_analyzer.py lines 187-226.
ParseAnalysisResult(d, coerce) ==
    IF d.form # "object" THEN ParseFailed("AttributeError")
    ELSE IF Truthy(DictGet(d.error))
    THEN IF OptStrOk(d.error, coerce)
         THEN [NoResult EXCEPT !.error = OptStrVal(d.error)]
         ELSE ParseFailed("ValidationError")
    ELSE LET c == d.confidence_scores
             t == DictGetFloat(c.t_confidence)
             n == DictGetFloat(c.n_confidence)
             m == DictGetFloat(c.m_confidence)
             o == DictGetFloat(c.overall_confidence)
             fields == {DictGet(d.t_stage), DictGet(d.n_stage), DictGet(d.m_stage),
                        DictGet(d.overall_stage), DictGet(d.error)}
         IN  IF c.type \notin {"absent", "object"} THEN ParseFailed("AttributeError")
             ELSE IF ~(FloatOk(t) /\ FloatOk(n) /\ FloatOk(m) /\ FloatOk(o))
             THEN ParseFailed("ValidationError")
             ELSE IF \E v \in fields : ~OptStrOk(v, coerce)
             THEN ParseFailed("ValidationError")
             ELSE [t |-> OptStrVal(DictGet(d.t_stage)),
                   n |-> OptStrVal(DictGet(d.n_stage)),
                   m |-> OptStrVal(DictGet(d.m_stage)),
                   stage |-> OptStrVal(DictGet(d.overall_stage)),
                   confidences |-> [t |-> t.n, n |-> n.n, m |-> m.n, stage |-> o.n],
                   error |-> OptStrVal(DictGet(d.error))]

\* vision_analyzer.py lines 48-179: the try block and its handler.
AnalyzeGuarded(response, coerce) ==
    CASE response.kind = "prompt_error" -> ErrorResult(<<"Analysis failed: ", "KeyError">>)
      [] response.kind = "api_error" ->
             ErrorResult(<<"Analysis failed: ", "APIConnectionError">>)
      [] response.kind = "no_choices" -> ErrorResult(<<"Analysis failed: ", "IndexError">>)
      [] response.kind = "no_tool_calls" ->
             ErrorResult(<<"No analysis result received from model">>)
      [] response.kind = "tool_call" ->
             IF response.arguments.form = "invalid"
             THEN ErrorResult(<<"Analysis failed: ", "JSONDecodeError">>)
             ELSE ParseAnalysisResult(response.arguments, coerce)

\* An analyze_ct_scan whose remote call is made outside the try block.
AnalyzeCtScanUnguarded(cl, response, coerce) ==
    IF ~cl THEN [raised |-> "RuntimeError", result |-> NoResult]
    ELSE IF response.kind = "api_error"
    THEN [raised |-> "APIConnectionError", result |-> NoResult]
    ELSE [raised |-> "none", result |-> AnalyzeGuarded(response, coerce)]

\* vision_analyzer.py lines 35-179: [raised, result].
AnalyzeCtScan(cl, response, coerce) ==
    IF ~cl THEN [raised |-> "RuntimeError", result |-> NoResult]
    ELSE [raised |-> "none", result |-> AnalyzeGuarded(response, coerce)]

InitAnalyze ==
    /\ InitReq
    /\ sniff = NoSniff
    /\ dec = NoDec
    /\ enc = NoEnc
    /\ \E resp0 \in Responses :
         ana = [state |-> "ready", response |-> resp0, client |-> FALSE,
                raised |-> "none", result |-> NoResult]

\* One call of analyze_ct_scan, before or after initialize().
AnalyzeCtScanStep ==
    /\ ana.state = "ready"
    /\ \E coerce \in BOOLEAN :
         LET a == AnalyzeCtScan(client, ana.response, coerce)
         IN  ana' = [ana EXCEPT !.state = IF a.raised = "none" THEN "returned" ELSE "raised",
                                !.client = client,
                                !.raised = a.raised,
                                !.result = a.result]
    /\ UNCHANGED <<reqVars, sniff, dec, enc>>

NextAnalyze == Initialize \/ AnalyzeCtScanStep

SpecAnalyze == InitAnalyze /\ [][NextAnalyze]_vars

\* The failures the claim names, and the further ones of the model: the
\* remote call fails, the response has no tool call, the arguments are not
\* JSON, or the arguments are an object with a non-empty error string.
NamedFailure(response) ==
    \/ response.kind \in {"api_error", "no_tool_calls"}
    \/ /\ response.kind = "tool_call"
       /\ \/ response.arguments.form = "invalid"
          \/ /\ response.arguments.form = "object"
             /\ response.arguments.error.type = "string"
             /\ response.arguments.error.s # <<>>

\* C22: a call of analyze_ct_scan raises exactly when the client is not set,
\* and then RuntimeError; with the client set, a failed remote call, a
\* response without a tool call, arguments that are not JSON and a result
\* with a non-empty error each give a StagingResult with t, n, m and stage
\* None, the four confidences 0.0 and a non-empty error.
C22_NeverRaises ==
    ana.state \in {"returned", "raised"} =>
        /\ ana.state = "raised" <=> ~ana.client
        /\ ana.raised = (IF ana.client THEN "none" ELSE "RuntimeError")
        /\ (ana.client /\ NamedFailure(ana.response)) =>
               /\ ana.result.t = JNull /\ ana.result.n = JNull
               /\ ana.result.m = JNull /\ ana.result.stage = JNull
               /\ ana.result.confidences = [t |-> 0, n |-> 0, m |-> 0, stage |-> 0]
               /\ ana.result.error.type = "string"
               /\ ana.result.error.s # <<>>
        /\ (ana.client /\ ana.response.kind = "tool_call"
            /\ ana.response.arguments.form = "object"
            /\ ana.response.arguments.error.type = "string"
            /\ ana.response.arguments.error.s # <<>>) =>
               ana.result.error = ana.response.arguments.error

C22_Witness ==
    /\ ana.state = "returned"
    /\ ana.client
    /\ ana.response.kind = "tool_call"
    /\ ana.response.arguments.error = JStr(<<"non-diagnostic image">>)
    /\ ana.response.arguments.t_stage = JStr(<<"T1">>)
    /\ ana.result = ErrorResult(<<"non-diagnostic image">>)

=============================================================================
